---- MODULE Spec2Model ----
(***************************************************************************)
(* Database_Query_Assistant: the Safety Validator, the linear NL-to-SQL    *)
(* pipeline, its confirmation-loop variant and the ReAct agent loop, as    *)
(* state machines.                                                         *)
(*                                                                         *)
(* Text is a sequence of one-character strings, so that upper-casing,      *)
(* trimming, prefix and substring tests are computed as Python computes    *)
(* them.  An element longer than one character is a literal chunk of a     *)
(* fixed message of the program; no operator of the program looks inside   *)
(* such a message.  The Python values None and "key not in the dict" are   *)
(* the one-element sequences None and Absent.                              *)
(***************************************************************************)
EXTENDS Integers, Sequences, FiniteSets, TLC

\* ------------------------------------------------------------------------
\* Bounds of the model
\* ------------------------------------------------------------------------
\* number of fragments a candidate SQL text is put together from
MaxFrags == 3

\* ------------------------------------------------------------------------
\* Python values
\* ------------------------------------------------------------------------
None == <<"<None>">>
Absent == <<"<absent>">>

\* bool(x) of an optional text: None, a missing key and "" are falsy
Truthy(t) == t # None /\ t # Absent /\ t # <<>>

\* ------------------------------------------------------------------------
\* str methods
\* ------------------------------------------------------------------------
LowerLetters == <<"a","b","c","d","e","f","g","h","i","j","k","l","m",
                  "n","o","p","q","r","s","t","u","v","w","x","y","z">>
UpperLetters == <<"A","B","C","D","E","F","G","H","I","J","K","L","M",
                  "N","O","P","Q","R","S","T","U","V","W","X","Y","Z">>

UpperChar(c) ==
    IF \E i \in 1..26 : LowerLetters[i] = c
    THEN UpperLetters[CHOOSE i \in 1..26 : LowerLetters[i] = c]
    ELSE c

LowerChar(c) ==
    IF \E i \in 1..26 : UpperLetters[i] = c
    THEN LowerLetters[CHOOSE i \in 1..26 : UpperLetters[i] = c]
    ELSE c

\* str.upper() / str.lower()
StrUpper(s) == [i \in 1..Len(s) |-> UpperChar(s[i])]
StrLower(s) == [i \in 1..Len(s) |-> LowerChar(s[i])]

IsSpace(c) == c \in {" ", "\n", "\t", "\r"}

\* str.strip()
StrStrip(s) ==
    IF \A i \in 1..Len(s) : IsSpace(s[i])
    THEN <<>>
    ELSE LET first == CHOOSE i \in 1..Len(s) :
                          /\ ~IsSpace(s[i])
                          /\ \A j \in 1..(i-1) : IsSpace(s[j])
             last  == CHOOSE i \in 1..Len(s) :
                          /\ ~IsSpace(s[i])
                          /\ \A j \in (i+1)..Len(s) : IsSpace(s[j])
         IN  SubSeq(s, first, last)

\* str.startswith(p)
StartsWith(s, p) == Len(s) >= Len(p) /\ SubSeq(s, 1, Len(p)) = p

\* p occurs in s at position i
OccursAt(s, p, i) == i + Len(p) - 1 <= Len(s) /\ SubSeq(s, i, i + Len(p) - 1) = p

\* p in s
StrContains(s, p) == \E i \in 1..(Len(s) - Len(p) + 1) : OccursAt(s, p, i)

\* s.find(p), 1-based; 0 when p does not occur
StrFind(s, p) ==
    IF StrContains(s, p)
    THEN CHOOSE i \in 1..(Len(s) - Len(p) + 1) :
             /\ OccursAt(s, p, i)
             /\ \A j \in 1..(i-1) : ~OccursAt(s, p, j)
    ELSE 0

\* s.split(p)[0]
SplitHead(s, p) == IF StrContains(s, p) THEN SubSeq(s, 1, StrFind(s, p) - 1) ELSE s

\* the text after the first occurrence of p (defined when p occurs in s)
SplitRest(s, p) == SubSeq(s, StrFind(s, p) + Len(p), Len(s))

\* s.split(p)[1] (defined when p occurs in s)
SplitSecond(s, p) == SplitHead(SplitRest(s, p), p)

\* ------------------------------------------------------------------------
\* Words
\* ------------------------------------------------------------------------
SELECT == <<"S","E","L","E","C","T">>
INSERT == <<"I","N","S","E","R","T">>
UPDATE == <<"U","P","D","A","T","E">>
DELETE == <<"D","E","L","E","T","E">>
DROP == <<"D","R","O","P">>
CREATE == <<"C","R","E","A","T","E">>
ALTER == <<"A","L","T","E","R">>
TRUNCATE == <<"T","R","U","N","C","A","T","E">>
GRANT == <<"G","R","A","N","T">>
REVOKE == <<"R","E","V","O","K","E">>
EXECUTE == <<"E","X","E","C","U","T","E">>
EXEC == <<"E","X","E","C">>
ERROR_PREFIX == <<"E","R","R","O","R",":">>
\* the backquote character of a Markdown code fence is written BQ
BQ == "#"
FENCE == <<BQ, BQ, BQ>>
FENCE_SQL == <<BQ, BQ, BQ, "s", "q", "l">>
FROM_PROJECTS == <<" ","F","R","O","M"," ","p","r","o","j","e","c","t","s">>

\* ------------------------------------------------------------------------
\* utils.py
\* ------------------------------------------------------------------------
dangerous_keywords_tail == <<UPDATE, DELETE, DROP, CREATE, ALTER,
                             TRUNCATE, GRANT, REVOKE, EXECUTE, EXEC>>
dangerous_keywords_no_exec == <<INSERT>> \o SubSeq(dangerous_keywords_tail, 1, 9)
dangerous_keywords == <<INSERT>> \o dangerous_keywords_tail

NOT_SELECT_MSG ==
    <<"Generated query is not a SELECT statement. This system only supports read-only queries.">>

forbidden_keyword_msg(keyword) ==
    <<"Query contains forbidden keyword '">> \o keyword
        \o <<"'. Only SELECT queries are allowed.">>

no_select_check(sql_upper) == TRUE
starts_with_select(sql_upper) == StartsWith(sql_upper, SELECT)

validate_with(sql_query, keywords) ==
    LET sql_upper == StrStrip(StrUpper(sql_query))
        hits == {k \in 1..Len(keywords) : StrContains(sql_upper, keywords[k])}
    IN  IF ~starts_with_select(sql_upper)
        THEN [is_valid |-> FALSE, error_message |-> NOT_SELECT_MSG]
        ELSE IF hits # {}
        THEN LET k == CHOOSE k \in hits : \A h \in hits : k <= h
             IN  [is_valid |-> FALSE,
                  error_message |-> forbidden_keyword_msg(keywords[k])]
        ELSE [is_valid |-> TRUE, error_message |-> None]

validate_select_query_no_insert(sql_query) ==
    validate_with(sql_query, dangerous_keywords_tail)
validate_select_query(sql_query) == validate_with(sql_query, dangerous_keywords)

extract_sql_from_response(response) ==
    IF StrContains(response, FENCE_SQL)
    THEN StrStrip(SplitHead(SplitSecond(response, FENCE_SQL), FENCE))
    ELSE IF StrContains(response, FENCE)
    THEN StrStrip(SplitSecond(response, FENCE))
    ELSE StrStrip(response)

\* ------------------------------------------------------------------------
\* Candidate SQL texts: up to MaxFrags fragments, concatenated
\* ------------------------------------------------------------------------
Fragments ==
    { <<" ">>, <<"x">>, <<"'">>,
      SELECT, <<"s","e","l","e","c","t">>,
      INSERT, <<"u","p","d","a","t","e","d">>, <<"D","e","l","e","t","e">>,
      DROP, <<"c","r","e","a","t","e">>, ALTER, TRUNCATE,
      <<"g","r","a","n","t">>, REVOKE, EXECUTE, <<"e","x","e","c">>,
      DELETE \o FROM_PROJECTS }

RECURSIVE Texts(_)
Texts(n) ==
    IF n = 0 THEN { <<>> }
    ELSE LET shorter == Texts(n - 1)
         IN  shorter \cup { t \o f : t \in shorter, f \in Fragments }

CandidateSql == Texts(MaxFrags)

\* ------------------------------------------------------------------------
\* The outside world: what the user types, what the gateway replies, what
\* the database does
\* ------------------------------------------------------------------------
\* rows a query may return, cap values a caller may pass, seconds a query may take
MaxRows == 4
MaxCap == 3
MaxElapsed == 1

SELECT_ALL == <<"S","E","L","E","C","T"," ","*"," ","F","R","O","M"," ","p","r","o","j","e","c","t","s">>
DELETE_FROM_PROJECTS == DELETE \o FROM_PROJECTS
GATEWAY_ERROR == ERROR_PREFIX \o <<" ","t","i","m","e","d"," ","o","u","t">>
FENCED_SELECT == FENCE_SQL \o <<"\n">> \o SELECT_ALL \o <<"\n">> \o FENCE
SELECT_DROP == <<"S","E","L","E","C","T"," ","'","d","r","o","p","'">>
SHORT_REPLY == <<"o","k">>
TEN_CHARS == <<"0","1","2","3","4","5","6","7","8","9">>
NO_INSIGHT_REPLY == <<"N","o"," ","i","n","s","i","g","h","t","s"," ","h","e","r","e">>
SOME_INSIGHT == <<"B","u","d","g","e","t","s"," ","r","o","s","e">>

\* completion texts the Language Model Gateway may come back with
Replies ==
    { GATEWAY_ERROR, SELECT_ALL, FENCED_SELECT, DELETE_FROM_PROJECTS,
      SELECT_DROP, <<>>, SHORT_REPLY, TEN_CHARS, NO_INSIGHT_REPLY, SOME_INSIGHT }

UserInputs ==
    { <<"s","h","o","w"," ","a","l","l">>,
      <<"T","o","p"," ","5">>,
      <<"i","n","s","i","g","h","t","s">> }

TIMEOUT_W == <<"t","i","m","e","o","u","t">>
PERMISSION_DENIED_W == <<"p","e","r","m","i","s","s","i","o","n"," ","d","e","n","i","e","d">>

\* str(e.orig) of a driver failure, str(e) of any other exception
DriverMessages ==
    { <<"canceling statement due to statement ">> \o TIMEOUT_W,
      PERMISSION_DENIED_W \o <<" for table projects">>,
      <<"relation does not exist">>,
      StrUpper(TIMEOUT_W) \o <<": ">> \o PERMISSION_DENIED_W }
ExceptionMessages == { <<"connection reset">> }

\* a pandas DataFrame: its rows in source order, and whether a column is numeric
DataFrame(n, num) == [kind |-> "DataFrame", rows |-> [i \in 1..n |-> i], numeric |-> num]
NoneFrame == [kind |-> "None", rows |-> <<>>, numeric |-> FALSE]
AbsentFrame == [kind |-> "absent", rows |-> <<>>, numeric |-> FALSE]

\* the step of one guarded execution that can raise
FailurePlaces == {"connect", "set_timeout", "execute"}

\* what one guarded execution can come to
DbOutcomes ==
    { [ok |-> TRUE, exc |-> "none", msg |-> <<>>, at |-> "none",
       df |-> DataFrame(n, num), elapsed |-> t] :
          n \in 0..MaxRows, num \in BOOLEAN, t \in 1..MaxElapsed }
    \cup
    { [ok |-> FALSE, exc |-> "SQLAlchemyError", msg |-> m, at |-> a,
       df |-> NoneFrame, elapsed |-> 0] :
          m \in DriverMessages, a \in FailurePlaces }
    \cup
    { [ok |-> FALSE, exc |-> "Exception", msg |-> m, at |-> a,
       df |-> NoneFrame, elapsed |-> 0] :
          m \in ExceptionMessages, a \in FailurePlaces }

\* the statements one execution puts on the wire, and what the failing one raised
Sent(op, sql) == [op |-> op, sql |-> sql, exc |-> "none", msg |-> <<>>]
Raised(op, sql, o) == [op |-> op, sql |-> sql, exc |-> o.exc, msg |-> o.msg]

\* an execution that leaves the connection open when a statement raises
leaky_trace(sql, o) ==
    IF o.at = "connect" THEN << Raised("connect", <<>>, o) >>
    ELSE IF o.at = "set_timeout"
    THEN << Sent("connect", <<>>), Raised("set_timeout", <<>>, o) >>
    ELSE IF o.ok
    THEN << Sent("connect", <<>>), Sent("set_timeout", <<>>),
            Sent("execute", sql), Sent("close", <<>>) >>
    ELSE << Sent("connect", <<>>), Sent("set_timeout", <<>>),
            Raised("execute", sql, o) >>
DbTrace(sql, o) ==
    IF o.at = "connect" THEN << Raised("connect", <<>>, o) >>
    ELSE IF o.at = "set_timeout"
    THEN << Sent("connect", <<>>),
            Raised("set_timeout", <<>>, o),
            Sent("close", <<>>) >>
    ELSE << Sent("connect", <<>>),
            Sent("set_timeout", <<>>),
            IF o.ok THEN Sent("execute", sql) ELSE Raised("execute", sql, o),
            Sent("close", <<>>) >>

\* SQL texts the database has been asked to run
Executed(log) == { log[i].sql : i \in { j \in 1..Len(log) : log[j].op = "execute" } }

VARIABLES
    candidate,      \* the text handed to the Safety Validator
    verdict,        \* what validate_select_query returned for it
    engine,         \* config.engine: TRUE when DATABASE_URL gave an engine
    state,          \* the dict threaded through the nodes of the graph
    node,           \* the node of the graph that runs next
    ran,            \* the nodes that have run in this request, in order ("invoke"
                    \* where the graph was started again)
    llm_calls,      \* the calls made to the Language Model Gateway, in order
    db_log          \* the statements sent to the database, in order

vvars == <<candidate, verdict>>
pvars == <<engine, state, node, ran, llm_calls, db_log>>
vars == <<vvars, pvars>>

\* ------------------------------------------------------------------------
\* Safety Validator on its own
\* ------------------------------------------------------------------------
NoVerdict == [called |-> FALSE, is_valid |-> FALSE, error_message |-> None]

PipelineIdle ==
    /\ engine = FALSE
    /\ state = [user_input |-> <<>>]
    /\ node = "idle"
    /\ ran = <<>>
    /\ llm_calls = <<>>
    /\ db_log = <<>>

ValidatorIdle ==
    /\ candidate = <<>>
    /\ verdict = NoVerdict

InitValidator ==
    /\ candidate \in CandidateSql
    /\ verdict = NoVerdict
    /\ PipelineIdle

Validate ==
    /\ ~verdict.called
    /\ verdict' = [called |-> TRUE] @@ validate_select_query(candidate)
    /\ UNCHANGED <<candidate, pvars>>

NextValidator == Validate

SpecValidator == InitValidator /\ [][NextValidator]_vars

\* ------------------------------------------------------------------------
\* nodes.py: the nodes of the linear pipeline
\* ------------------------------------------------------------------------
AbsentInt == -1
EmptyMetadata == [kind |-> "empty"]

\* a schema dict: where it came from and the tables it lists
NO_TABLES == {}
PLACEHOLDER_TABLES == {"projects", "clients", "orders"}
PLACEHOLDER_SCHEMA == [kind |-> "placeholder", tables |-> PLACEHOLDER_TABLES]
INSPECTED_SCHEMA == [kind |-> "inspected", tables |-> {"projects", "suppliers"}]
NO_SCHEMA == [kind |-> "absent", tables |-> {}]

\* call_llm: the reply is the gateway's; the call is recorded
call_llm(caller, about, reply) ==
    llm_calls' = Append(llm_calls, [caller |-> caller, about |-> about, reply |-> reply])

\* langgraph_graph.run_graph: initial_state
initial_state(user_query, cap) ==
    [ user_input |-> user_query,
      display_cap |-> cap,
      metadata |-> EmptyMetadata,
      schema |-> NO_SCHEMA,
      improved_prompt |-> Absent,
      sql_query |-> Absent,
      sql_valid |-> "absent",
      query_results |-> AbsentFrame,
      total_rows |-> AbsentInt,
      execution_time |-> AbsentInt,
      insights |-> Absent,
      error |-> Absent ]

InitPipeline ==
    /\ ValidatorIdle
    /\ engine \in BOOLEAN
    /\ \E u \in UserInputs, cap \in 0..MaxCap : state = initial_state(u, cap)
    /\ node = "user_input"
    /\ ran = <<>>
    /\ llm_calls = <<>>
    /\ db_log = <<>>

\* the edges of create_inventory_graph
after_user_input == "schema_retrieval"
after_schema_retrieval(st) == "prompt_improver"
skip_to_runner(st) == "query_runner"
after_prompt_improver(st) == "query_generator"
always_run_query(st) == "run_query"
should_proceed_after_query_generation(st) ==
    IF st.sql_valid = "True" THEN "run_query" ELSE "error"
after_query_generator(st) ==
    IF should_proceed_after_query_generation(st) = "run_query"
    THEN "query_runner" ELSE "END"
after_query_runner(st) == "user_output"
after_user_output == "insights_generator"
after_insights_generator == "END"

\* a user_input_node that keeps what it logs, state['user_input'][:100]
logged_input_node ==
    /\ node = "user_input"
    /\ node' = "schema_retrieval"
    /\ ran' = Append(ran, "user_input")
    /\ state' = [state EXCEPT !.user_input = SubSeq(state.user_input, 1, 3)]
    /\ UNCHANGED <<engine, llm_calls, db_log, vvars>>
user_input_node ==
    /\ node = "user_input"
    /\ node' = after_user_input
    /\ ran' = Append(ran, "user_input")
    /\ UNCHANGED <<engine, state, llm_calls, db_log, vvars>>

sql_schema_retriever ==
    /\ node = "schema_retrieval"
    /\ ran' = Append(ran, "schema_retrieval")
    /\ \/ /\ ~engine
          /\ state' = [state EXCEPT !.schema = PLACEHOLDER_SCHEMA]
       \/ /\ engine
          /\ state' = [state EXCEPT !.schema = INSPECTED_SCHEMA]
       \/ /\ engine
          /\ \E e \in DriverMessages \cup ExceptionMessages :
                state' = [state EXCEPT !.error = <<"Schema retrieval failed: ">> \o e]
    /\ node' = after_schema_retrieval(state')
    /\ UNCHANGED <<engine, llm_calls, db_log, vvars>>

prompt_improver_node ==
    /\ node = "prompt_improver"
    /\ ran' = Append(ran, "prompt_improver")
    /\ \E improved_prompt \in Replies :
          /\ call_llm("PROMPT_IMPROVER_SYSTEM", state.user_input, improved_prompt)
          /\ state' = [state EXCEPT !.improved_prompt = improved_prompt]
    /\ node' = after_prompt_improver(state')
    /\ UNCHANGED <<engine, db_log, vvars>>


query_generator_node ==
    /\ node = "query_generator"
    /\ ran' = Append(ran, "query_generator")
    /\ \E sql_response \in Replies :
          LET confirmed_prompt == state.improved_prompt
              sql_query == extract_sql_from_response(sql_response)
              v == validate_select_query(sql_query)
          IN  /\ call_llm("QUERY_GENERATOR_SYSTEM", confirmed_prompt, sql_response)
              /\ state' =
                   IF StartsWith(StrStrip(sql_response), ERROR_PREFIX)
                   THEN [state EXCEPT !.error = StrStrip(sql_response),
                                      !.sql_valid = "False"]
                   ELSE IF ~v.is_valid
                   THEN [state EXCEPT !.error = v.error_message,
                                      !.sql_valid = "False"]
                   ELSE [state EXCEPT !.sql_query = sql_query,
                                      !.sql_valid = "True",
                                      !.error = None]
    /\ node' = after_query_generator(state')
    /\ UNCHANGED <<engine, db_log, vvars>>

TIMEOUT_MSG ==
    <<"Query exceeded time limit (20s). Please add filters or narrow your query.">>
PERMISSION_MSG ==
    <<"Permission denied. You don't have access to read from this table.">>

NO_CONNECTION_MSG ==
    <<"Database connection not available. Please check DATABASE_URL in .env file">>

\* the except SQLAlchemyError branch: the message put after "Query execution failed: "
permission_checked_first(error_msg) ==
    IF StrContains(StrLower(error_msg), PERMISSION_DENIED_W) THEN PERMISSION_MSG
    ELSE IF StrContains(StrLower(error_msg), TIMEOUT_W) THEN TIMEOUT_MSG
    ELSE error_msg
rewrite_driver_error(error_msg) ==
    IF StrContains(StrLower(error_msg), TIMEOUT_W) THEN TIMEOUT_MSG
    ELSE IF StrContains(StrLower(error_msg), PERMISSION_DENIED_W) THEN PERMISSION_MSG
    ELSE error_msg

query_runner_tool_node ==
    /\ node = "query_runner"
    /\ ran' = Append(ran, "query_runner")
    /\ \/ /\ ~engine
          /\ state' = [state EXCEPT
                !.error = NO_CONNECTION_MSG,
                !.query_results = NoneFrame]
          /\ UNCHANGED db_log
       \/ /\ engine
          /\ \E o \in DbOutcomes :
                /\ db_log' = db_log \o DbTrace(state.sql_query, o)
                /\ state' =
                     IF o.ok
                     THEN [state EXCEPT !.query_results = o.df,
                                        !.total_rows = Len(o.df.rows),
                                        !.execution_time = o.elapsed,
                                        !.error = None]
                     ELSE IF o.exc = "SQLAlchemyError"
                     THEN [state EXCEPT
                             !.error = <<"Query execution failed: ">> \o rewrite_driver_error(o.msg),
                             !.query_results = NoneFrame,
                             !.total_rows = 0,
                             !.execution_time = 0]
                     ELSE [state EXCEPT
                             !.error = <<"Unexpected error: ">> \o o.msg,
                             !.query_results = NoneFrame,
                             !.total_rows = 0,
                             !.execution_time = 0]
    /\ node' = after_query_runner(state')
    /\ UNCHANGED <<engine, llm_calls, vvars>>

\* dict.get(key, default) of an int field
GetInt(v, default) == IF v = AbsentInt THEN default ELSE v

EMPTY_RESULT_MSG ==
    <<"Query executed successfully, but returned 0 rows. This means no data matched your criteria.">>
truncation_msg(display_cap, total_rows) ==
    <<"Showing ", display_cap, " of ", total_rows,
      " rows. Query returned more data than can be displayed.">>

\* DataFrame.head(n) that keeps every row
whole_frame(df, n) == df
\* DataFrame.head(n)
Head_(df, n) == [df EXCEPT !.rows = SubSeq(df.rows, 1, IF n < Len(df.rows) THEN n ELSE Len(df.rows))]

\* total_rows >= display_cap
cap_reached(total_rows, display_cap) == total_rows >= display_cap
\* total_rows > display_cap
over_cap(total_rows, display_cap) == total_rows > display_cap

\* result_message without the branch for an empty result
no_empty_notice(total_rows, display_cap) ==
    IF over_cap(total_rows, display_cap)
    THEN truncation_msg(display_cap, total_rows)
    ELSE None
\* result_message of user_output_node
result_message_for(total_rows, display_cap) ==
    IF total_rows = 0 THEN EMPTY_RESULT_MSG
    ELSE IF over_cap(total_rows, display_cap)
    THEN truncation_msg(display_cap, total_rows)
    ELSE None

user_output_node ==
    /\ node = "user_output"
    /\ ran' = Append(ran, "user_output")
    /\ LET query_results == state.query_results
           total_rows == GetInt(state.total_rows, 0)
           display_cap == state.display_cap
           display_results == IF over_cap(total_rows, display_cap)
                              THEN Head_(query_results, display_cap)
                              ELSE query_results
           result_message == result_message_for(total_rows, display_cap)
           metadata == [ kind |-> "metadata",
                         total_rows |-> total_rows,
                         displayed_rows |-> IF display_results.kind = "DataFrame"
                                            THEN Len(display_results.rows) ELSE 0,
                         execution_time |-> GetInt(state.execution_time, 0),
                         capped |-> over_cap(total_rows, display_cap),
                         result_message |-> result_message ]
       IN  state' = [state EXCEPT !.query_results = display_results,
                                  !.metadata = metadata]
    /\ node' = after_user_output
    /\ UNCHANGED <<engine, llm_calls, db_log, vvars>>

insight_keywords ==
    << <<"t","r","e","n","d">>,
       <<"c","o","m","p","a","r","e">>,
       <<"a","n","a","l","y","s","i","s">>,
       <<"i","n","s","i","g","h","t">>,
       <<"s","u","m","m","a","r","y">>,
       <<"t","o","p">>,
       <<"b","r","e","a","k","d","o","w","n">>,
       <<"a","v","e","r","a","g","e">>,
       <<"m","e","a","n">>,
       <<"m","e","d","i","a","n">>,
       <<"p","e","r","c","e","n","t">>,
       <<"t","o","t","a","l">>,
       <<"c","o","u","n","t">>,
       <<"o","v","e","r">>,
       <<"u","n","d","e","r">>,
       <<"e","x","c","e","e","d">>,
       <<"b","e","l","o","w">> >>

NO_FALLBACK == <<>>
INSIGHT_FALLBACK ==
    <<"No data matched your query criteria. This could mean the conditions specified don't apply to any records in the database.">>
NO_INSIGHT_W == <<"n","o"," ","i","n","s","i","g","h","t">>

\* len(insights) >= 10
at_least_ten(insights) == Len(insights) >= 10
\* len(insights) > 10
long_enough(insights) == Len(insights) > 10

\* a numeric column and more than 3 rows
above_three_rows(query_results) == query_results.numeric /\ Len(query_results.rows) > 3
\* len(numeric_cols) > 0 and len(query_results) >= 3
numeric_and_three_rows(query_results) ==
    query_results.numeric /\ Len(query_results.rows) >= 3

insights_generator_tool_node ==
    /\ node = "insights_generator"
    /\ ran' = Append(ran, "insights_generator")
    /\ LET user_input == state.user_input
           query_results == state.query_results
           total_rows == GetInt(state.total_rows, 0)
           keyword_hit == \E k \in 1..Len(insight_keywords) :
                              StrContains(StrLower(user_input), insight_keywords[k])
           should_generate ==
               \/ keyword_hit
               \/ numeric_and_three_rows(query_results)
       IN  IF total_rows = 0
           THEN \E insights \in Replies :
                   /\ call_llm("INSIGHTS_GENERATOR_SYSTEM", user_input, insights)
                   /\ state' = [state EXCEPT !.insights =
                                   IF Truthy(insights) /\ long_enough(insights)
                                   THEN insights ELSE INSIGHT_FALLBACK]
           ELSE IF query_results.kind # "DataFrame" \/ Len(query_results.rows) = 0
           THEN /\ state' = [state EXCEPT !.insights = None]
                /\ UNCHANGED llm_calls
           ELSE IF ~should_generate
           THEN /\ state' = [state EXCEPT !.insights = None]
                /\ UNCHANGED llm_calls
           ELSE \E insights \in Replies :
                   /\ call_llm("INSIGHTS_GENERATOR_SYSTEM", user_input, insights)
                   /\ state' = [state EXCEPT !.insights =
                                   IF /\ Truthy(insights)
                                      /\ long_enough(insights)
                                      /\ ~StrContains(StrLower(insights), NO_INSIGHT_W)
                                   THEN insights ELSE None]
    /\ node' = after_insights_generator
    /\ UNCHANGED <<engine, db_log, vvars>>

\* ------------------------------------------------------------------------
\* graph.py: the ReAct agent loop
\* ------------------------------------------------------------------------
\* tool calls one assistant turn may carry; tool calls one run may carry; calls
\* of the four real tools one run may carry (any further call names a tool that
\* is not in the dispatch)
MaxToolCalls == 2
MaxCalls == 5
MaxRealCalls == 2

MAX_ITERATIONS == 5

AGENT_SYSTEM_PROMPT == <<"AGENT_SYSTEM_PROMPT">>
MAX_ITERATIONS_NOTICE == <<"Maximum iterations reached. Ending task.">>

RealTools == {"get_database_schema", "generate_sql_query",
              "execute_sql_query", "generate_insights_from_data"}
UNKNOWN_TOOL == "lookup_table"

SCHEMA_ERROR_OBJECT == [kind |-> "error_object", tables |-> {}]

NoCalls == <<>>
SystemMessage(content) ==
    [type |-> "system", content |-> content, tool_calls |-> NoCalls, tool_call_id |-> 0]
HumanMessage(content) ==
    [type |-> "human", content |-> content, tool_calls |-> NoCalls, tool_call_id |-> 0]
AIMessage(tool_calls) ==
    [type |-> "ai", content |-> <<>>, tool_calls |-> tool_calls, tool_call_id |-> 0]
ToolMessage(content, tool_call_id) ==
    [type |-> "tool", content |-> content, tool_calls |-> NoCalls, tool_call_id |-> tool_call_id]

\* what the model may put in a tool call: a tool name and, for SQL execution, a text
SELECT_ONE == <<"S","E","L","E","C","T"," ","1">>
AgentSql == { SELECT_ALL, SELECT_ONE, DELETE_FROM_PROJECTS }
CallShapes ==
    { [name |-> n, sql_query |-> <<>>] :
          n \in (RealTools \ {"execute_sql_query"}) \cup {UNKNOWN_TOOL} }
    \cup { [name |-> "execute_sql_query", sql_query |-> q] : q \in AgentSql }

\* the tool calls of every assistant turn so far, in order
RECURSIVE CallsIn(_)
CallsIn(messages) ==
    IF messages = <<>> THEN <<>>
    ELSE CallsIn(SubSeq(messages, 1, Len(messages) - 1))
             \o messages[Len(messages)].tool_calls

RealCallsIn(calls) == Cardinality({i \in 1..Len(calls) : calls[i].name \in RealTools})

\* the lists of tool calls one assistant turn may carry
CallLists == UNION { [1..k -> CallShapes] : k \in 0..MaxToolCalls }

\* the assistant turns the gateway may answer with after `issued` calls, `spent`
\* of them of real tools: calls get fresh ids in order
ResponsesAfter(issued, spent) ==
    { AIMessage([i \in DOMAIN sh |->
          [name |-> sh[i].name,
           args |-> [sql_query |-> sh[i].sql_query],
           id |-> issued + i]]) :
        sh \in { l \in CallLists : /\ issued + Len(l) <= MaxCalls
                                    /\ spent + RealCallsIn(l) <= MaxRealCalls } }

\* the assistant turns the gateway may answer with, given the turns so far (the
\* calls so far are collected once)
Responses(messages) ==
    UNION { ResponsesAfter(Len(calls), RealCallsIn(calls)) :
                calls \in { CallsIn(messages) } }

\* the question put to the agent
AgentQueries == { u \in UserInputs : Len(u) = 5 }

InitAgent ==
    /\ ValidatorIdle
    /\ engine \in BOOLEAN
    /\ \E user_query \in AgentQueries :
          state = [ messages |-> << SystemMessage(AGENT_SYSTEM_PROMPT),
                                    HumanMessage(user_query) >>,
                    user_input |-> user_query,
                    iteration_count |-> 0,
                    schema |-> NO_SCHEMA,
                    sql_query |-> Absent,
                    query_results |-> AbsentFrame,
                    insights |-> Absent ]
    /\ node = "agent"
    /\ ran = <<>>
    /\ llm_calls = <<>>
    /\ db_log = <<>>

no_turn_limit(st) ==
    LET last_message == st.messages[Len(st.messages)]
    IN  IF last_message.tool_calls # <<>> THEN "tools" ELSE "end"
should_continue(st) ==
    LET last_message == st.messages[Len(st.messages)]
    IN  IF st.iteration_count >= MAX_ITERATIONS THEN "end"
        ELSE IF last_message.tool_calls # <<>> THEN "tools"
        ELSE "end"

forgotten_increment(iteration_count) == iteration_count
new_iteration_count(iteration_count) == iteration_count + 1

agent_node ==
    /\ node = "agent"
    /\ ran' = Append(ran, "agent")
    /\ LET messages == state.messages
           iteration_count == state.iteration_count
       IN  IF iteration_count >= MAX_ITERATIONS
           THEN state' = [state EXCEPT
                    !.messages = Append(messages, SystemMessage(MAX_ITERATIONS_NOTICE))]
           ELSE \E response \in Responses(messages) :
                    state' = [state EXCEPT
                        !.messages = Append(messages, response),
                        !.iteration_count = new_iteration_count(iteration_count)]
    /\ node' = IF should_continue(state') = "tools" THEN "tools" ELSE "end"
    /\ UNCHANGED <<engine, llm_calls, db_log, vvars>>

\* what the services may do to one tool call of the agent
AgentReplies == { FENCED_SELECT, GATEWAY_ERROR }
AgentInsights == { SOME_INSIGHT, <<>> }
\* what the database may do to a statement of the agent; a statement that returns
\* no rows has run when fetchall() raises on its result
RowsOutcomes ==
    { o \in DbOutcomes :
        /\ o.ok => Len(o.df.rows) <= 1 /\ o.df.numeric /\ o.elapsed = 1
        /\ ~o.ok => /\ o.at = "execute"
                    /\ o.exc = "SQLAlchemyError" => o.msg = <<"relation does not exist">> }
NoRowsOutcomes == { o \in RowsOutcomes : o.exc = "SQLAlchemyError" }
ReturnsRows(sql_query) == StartsWith(StrStrip(StrUpper(sql_query)), SELECT)
\* SELECT 1 returns its one row
ConstantOutcomes == { o \in RowsOutcomes : o.ok /\ Len(o.df.rows) = 1 }
AgentDbOutcomes(sql_query) ==
    IF sql_query = SELECT_ONE THEN ConstantOutcomes
    ELSE IF ReturnsRows(sql_query) THEN RowsOutcomes ELSE NoRowsOutcomes

NoOutcome == [kind |-> "none", reply |-> <<>>, db |-> [ok |-> FALSE]]
OutcomesFor(call, st) ==
    IF call.name = "get_database_schema"
    THEN IF engine
         THEN { [NoOutcome EXCEPT !.kind = "inspected"],
                [NoOutcome EXCEPT !.kind = "inspect_failed"] }
         ELSE { NoOutcome }
    ELSE IF call.name = "generate_sql_query"
    THEN { [NoOutcome EXCEPT !.kind = "reply", !.reply = r] : r \in AgentReplies }
    ELSE IF call.name = "execute_sql_query"
    THEN IF engine
         THEN { [NoOutcome EXCEPT !.kind = "db", !.db = o] : o \in AgentDbOutcomes(call.args.sql_query) }
         ELSE { NoOutcome }
    ELSE IF call.name = "generate_insights_from_data"
    THEN IF st.query_results.kind = "DataFrame" /\ Len(st.query_results.rows) > 0
         THEN { [NoOutcome EXCEPT !.kind = "reply", !.reply = r] :
                    r \in AgentInsights }
         ELSE { NoOutcome }
    ELSE { NoOutcome }

RECURSIVE OutcomeVectors(_, _)
OutcomeVectors(calls, st) ==
    IF calls = <<>> THEN { <<>> }
    ELSE { <<o>> \o rest : o \in OutcomesFor(Head(calls), st),
                           rest \in OutcomeVectors(Tail(calls), st) }

\* tools.generate_sql_query: the text the tool returns for a gateway reply
generate_sql_query(sql_response) ==
    LET sql_query == extract_sql_from_response(sql_response)
        v == validate_select_query(sql_query)
    IN  IF StartsWith(StrStrip(sql_response), ERROR_PREFIX) THEN sql_response
        ELSE IF ~v.is_valid THEN ERROR_PREFIX \o <<" ">> \o v.error_message
        ELSE sql_query

\* graph.py: generate_sql_query.invoke(tool_args), per reply the gateway may give
tool_result == [sql_response \in AgentReplies |-> generate_sql_query(sql_response)]

ERROR_W == <<"E","R","R","O","R">>
NO_DATA_MSG == <<"No data available to generate insights.">>
NO_CONNECTION_JSON == <<"{\"error\": \"Database connection not available\"}">>

\* no update of any key
NoUpdates == [k \in {} |-> <<>>]

\* what one tool call adds: result turns, state updates, statements, gateway calls
NoEffect == [messages |-> <<>>, updates |-> NoUpdates, db |-> <<>>, llm |-> <<>>]

\* one pass through the body of the for loop of custom_tool_node
ToolEffect(call, o, st) ==
    LET tool_id == call.id
    IN  IF call.name = "get_database_schema"
        THEN LET ok == o.kind = "inspected"
             IN  [NoEffect EXCEPT
                    !.messages = << ToolMessage(
                        IF ok THEN <<"{\"tables\": ...}">>
                        ELSE IF engine
                        THEN <<"{\"error\": \"Failed to retrieve schema: ...\"}">>
                        ELSE NO_CONNECTION_JSON, tool_id) >>,
                    !.updates = "schema" :> (IF ok THEN INSPECTED_SCHEMA
                                             ELSE SCHEMA_ERROR_OBJECT)]
        ELSE IF call.name = "generate_sql_query"
        THEN LET result == tool_result[o.reply]
             IN  [NoEffect EXCEPT
                    !.messages = << ToolMessage(result, tool_id) >>,
                    !.updates = IF ~StartsWith(result, ERROR_W)
                                THEN "sql_query" :> result ELSE NoUpdates,
                    !.llm = << [caller |-> "QUERY_GENERATOR_SYSTEM",
                                about |-> <<>>, reply |-> o.reply] >>]
        ELSE IF call.name = "execute_sql_query"
        THEN LET sql_query == call.args.sql_query
             IN  IF ~engine
                 THEN [NoEffect EXCEPT
                         !.messages = << ToolMessage(NO_CONNECTION_JSON, tool_id) >>]
                 ELSE IF o.db.ok
                 THEN [NoEffect EXCEPT
                         !.messages = << ToolMessage(
                             <<"Query executed successfully. Retrieved ",
                               Len(o.db.df.rows), " rows">>, tool_id) >>,
                         !.updates = "query_results" :> o.db.df,
                         !.db = DbTrace(sql_query, o.db)]
                 ELSE [NoEffect EXCEPT
                         !.messages = << ToolMessage(
                             <<"Error: ">> \o
                             (IF /\ o.db.exc = "SQLAlchemyError"
                                 /\ StrContains(StrLower(o.db.msg), TIMEOUT_W)
                              THEN <<"Query timeout (20s)">> ELSE o.db.msg), tool_id) >>,
                         !.db = DbTrace(sql_query, o.db)]
        ELSE IF call.name = "generate_insights_from_data"
        THEN LET df == st.query_results
             IN  IF df.kind # "DataFrame" \/ Len(df.rows) = 0
                 THEN [NoEffect EXCEPT
                         !.messages = << ToolMessage(
                             NO_DATA_MSG, tool_id) >>]
                 ELSE [NoEffect EXCEPT
                         !.messages = << ToolMessage(
                             IF o.reply # <<>> THEN o.reply
                             ELSE <<"Insights generated.">>, tool_id) >>,
                         !.updates = IF o.reply # <<>>
                                     THEN "insights" :> o.reply ELSE NoUpdates,
                         !.llm = << [caller |-> "INSIGHTS_GENERATOR_SYSTEM",
                                     about |-> st.user_input, reply |-> o.reply] >>]
        ELSE NoEffect

\* {**state, **new_state_updates}
Merge(st, updates) ==
    [k \in DOMAIN st |-> IF k \in DOMAIN updates THEN updates[k] ELSE st[k]]

\* the dict a tool handler reads its fields from: state, whatever
\* new_state_updates holds by then
merged_so_far(st, updates) == Merge(st, updates)
handler_state(st, updates) == st

\* the for loop of custom_tool_node over last_message.tool_calls
RECURSIVE RunToolCalls(_, _, _)
RunToolCalls(calls, outcomes, st) ==
    IF calls = <<>> THEN NoEffect
    ELSE LET n == Len(calls)
             before == RunToolCalls(SubSeq(calls, 1, n - 1), SubSeq(outcomes, 1, n - 1), st)
             this == ToolEffect(calls[n], outcomes[n], handler_state(st, before.updates))
         IN  [ messages |-> before.messages \o this.messages,
               updates |-> this.updates @@ before.updates,
               db |-> before.db \o this.db,
               llm |-> before.llm \o this.llm ]

\* create_react_graph: the edge out of the tools node
tools_then_end == "end"
after_tools == "agent"

custom_tool_node ==
    /\ node = "tools"
    /\ ran' = Append(ran, "tools")
    /\ LET messages == state.messages
           last_message == messages[Len(messages)]
       IN  \E done \in { RunToolCalls(last_message.tool_calls, outcomes, state) :
                            outcomes \in OutcomeVectors(last_message.tool_calls, state) } :
              /\ state' = [Merge(state, done.updates) EXCEPT
                              !.messages = messages \o done.messages]
              /\ db_log' = db_log \o done.db
              /\ llm_calls' = llm_calls \o done.llm
    /\ node' = after_tools
    /\ UNCHANGED <<engine, vvars>>

NextAgent ==
    \/ agent_node
    \/ custom_tool_node

SpecAgent == InitAgent /\ [][NextAgent]_vars

\* app.invoke runs the node the edges select until END is selected: a node that
\* can run does run
SpecAgentLive == SpecAgent /\ WF_vars(agent_node) /\ WF_vars(custom_tool_node)

\* ------------------------------------------------------------------------
\* langgraph_graph.py, langgraph_nodes.py: the confirmation-loop variant.
\* Its user_input, schema_retrieval, query_runner, user_output and
\* insights_generator nodes have the bodies of the nodes above.
\* ------------------------------------------------------------------------
\* runs of Prompt Refinement followed in one session
MaxRefinements == 3

MAX_EDITS == 10
MAX_EDITS_MSG == <<"Maximum edit attempts reached. Please submit a new query.">>

\* completion texts of the gateway in this variant
ConfirmReplies == { FENCED_SELECT, GATEWAY_ERROR, DELETE_FROM_PROJECTS }
\* edit_count of the initial_state a caller hands to run_graph_until_confirmation
EditCounts == { 0, MAX_EDITS - 2, MAX_EDITS - 1 }

\* run_full_graph: initial_state; run_graph_until_confirmation: the caller's
\* initial_state with user_confirmed set to None
confirm_initial_state(user_query, cap, edit_count, user_confirmed) ==
    [ user_input |-> user_query,
      display_cap |-> cap,
      edit_count |-> edit_count,
      metadata |-> EmptyMetadata,
      user_confirmed |-> user_confirmed,
      schema |-> NO_SCHEMA,
      improved_prompt |-> Absent,
      sql_query |-> Absent,
      sql_valid |-> "absent",
      query_results |-> AbsentFrame,
      total_rows |-> AbsentInt,
      execution_time |-> AbsentInt,
      insights |-> Absent,
      error |-> Absent ]

InitConfirm ==
    /\ ValidatorIdle
    /\ engine \in BOOLEAN
    /\ \E u \in AgentQueries, cap \in 0..MaxCap :
          \/ state = confirm_initial_state(u, cap, 0, "True")
          \/ \E n \in EditCounts : state = confirm_initial_state(u, cap, n, "None")
    /\ node = "user_input"
    /\ ran = <<>>
    /\ llm_calls = <<>>
    /\ db_log = <<>>

\* a test of user_confirmed that takes None for a confirmation
unset_means_confirmed(st) ==
    IF st.user_confirmed = "False" THEN "improve_again" ELSE "generate_query"
should_continue_after_prompt_improvement(st) ==
    IF st.user_confirmed = "True" THEN "generate_query"
    ELSE IF st.user_confirmed = "False" THEN "improve_again"
    ELSE "wait_for_confirmation"

\* a wiring that sends a confirmed prompt to END as well
confirmed_to_end(st) ==
    IF should_continue_after_prompt_improvement(st) = "improve_again"
    THEN "prompt_improver" ELSE "END"
confirm_after_prompt_improver(st) ==
    LET to == should_continue_after_prompt_improvement(st)
    IN  IF to = "generate_query" THEN "query_generator"
        ELSE IF to = "improve_again" THEN "prompt_improver"
        ELSE "END"

Refinements == Cardinality({ i \in 1..Len(ran) : ran[i] = "prompt_improver" })

\* ran and llm_calls keep the first MaxRefinements runs of Prompt Refinement of
\* a session; the node itself runs whenever the edges select it
confirm_prompt_improver_node ==
    /\ node = "prompt_improver"
    /\ \E improved_prompt \in ConfirmReplies :
          /\ IF Refinements < MaxRefinements
             THEN /\ ran' = Append(ran, "prompt_improver")
                  /\ call_llm("PROMPT_IMPROVER_SYSTEM", state.user_input, improved_prompt)
             ELSE UNCHANGED <<ran, llm_calls>>
          /\ state' = [state EXCEPT !.improved_prompt = improved_prompt,
                                    !.user_confirmed = state.user_confirmed]
    /\ node' = confirm_after_prompt_improver(state')
    /\ UNCHANGED <<engine, db_log, vvars>>

\* the keyword list written inline in langgraph_nodes.query_generator_node
inline_dangerous_keywords == SubSeq(dangerous_keywords, 1, 9)

\* the check query_generator_node makes on the extracted SQL
inline_safety_check(sql_query) == validate_with(sql_query, inline_dangerous_keywords)

confirm_query_generator_node ==
    /\ node = "query_generator"
    /\ ran' = Append(ran, "query_generator")
    /\ \E sql_response \in ConfirmReplies :
          LET confirmed_prompt == state.improved_prompt
              sql_query == extract_sql_from_response(sql_response)
              v == inline_safety_check(sql_query)
          IN  /\ call_llm("QUERY_GENERATOR_SYSTEM", confirmed_prompt, sql_response)
              /\ state' =
                   IF StartsWith(StrStrip(sql_response), ERROR_PREFIX)
                   THEN [state EXCEPT !.error = StrStrip(sql_response),
                                      !.sql_valid = "False"]
                   ELSE IF ~v.is_valid
                   THEN [state EXCEPT !.error = v.error_message,
                                      !.sql_valid = "False"]
                   ELSE [state EXCEPT !.sql_query = sql_query,
                                      !.sql_valid = "True",
                                      !.error = None]
    /\ node' = after_query_generator(state')
    /\ UNCHANGED <<engine, db_log, vvars>>

\* the graph has stopped on wait_for_confirmation
AtConfirmationPoint ==
    /\ node = "END"
    /\ ran # <<>>
    /\ ran[Len(ran)] = "prompt_improver"
    /\ state.user_confirmed = "None"

two_edits_at_once(edit_count) == edit_count + 2
one_more_edit(edit_count) == edit_count + 1

\* the caller answers at the confirmation point; app.invoke starts the graph
\* at its entry point
continue_graph_after_confirmation ==
    /\ AtConfirmationPoint
    /\ \E confirmed \in BOOLEAN :
          IF confirmed
          THEN /\ state' = [state EXCEPT !.user_confirmed = "True"]
               /\ node' = "user_input"
               /\ ran' = Append(ran, "invoke")
          ELSE LET edit_count == one_more_edit(state.edit_count)
               IN  IF edit_count >= MAX_EDITS
                   THEN /\ state' = [state EXCEPT !.user_confirmed = "False",
                                                  !.edit_count = edit_count,
                                                  !.error = MAX_EDITS_MSG]
                        /\ node' = "returned"
                        /\ ran' = ran
                   ELSE /\ state' = [state EXCEPT !.user_confirmed = "False",
                                                  !.edit_count = edit_count]
                        /\ node' = "user_input"
                        /\ ran' = Append(ran, "invoke")
    /\ UNCHANGED <<engine, llm_calls, db_log, vvars>>

NextConfirm ==
    \/ user_input_node
    \/ sql_schema_retriever
    \/ confirm_prompt_improver_node
    \/ confirm_query_generator_node
    \/ query_runner_tool_node
    \/ user_output_node
    \/ insights_generator_tool_node
    \/ continue_graph_after_confirmation

SpecConfirm == InitConfirm /\ [][NextConfirm]_vars

\* one app.invoke: the nodes of the graph, run until the edges select END
ConfirmInvoke ==
    \/ user_input_node
    \/ sql_schema_retriever
    \/ confirm_prompt_improver_node
    \/ confirm_query_generator_node
    \/ query_runner_tool_node
    \/ user_output_node
    \/ insights_generator_tool_node

\* a node that can run does run; the caller may or may not answer at the
\* confirmation point
SpecConfirmLive == SpecConfirm /\ WF_vars(ConfirmInvoke)

\* either configuration of the orchestrator: a request is served by the linear
\* graph or by the confirmation-loop graph
IsConfirmRun == "user_confirmed" \in DOMAIN state

InitEither == InitPipeline \/ InitConfirm

LinearStep ==
    /\ ~IsConfirmRun
    /\ \/ user_input_node
       \/ sql_schema_retriever
       \/ prompt_improver_node
       \/ query_generator_node
       \/ query_runner_tool_node
       \/ user_output_node
       \/ insights_generator_tool_node

ConfirmStep ==
    /\ IsConfirmRun
    /\ NextConfirm

NextEither ==
    \/ LinearStep
    \/ ConfirmStep

SpecEither == InitEither /\ [][NextEither]_vars

Next ==
    \/ user_input_node
    \/ sql_schema_retriever
    \/ prompt_improver_node
    \/ query_generator_node
    \/ query_runner_tool_node
    \/ user_output_node
    \/ insights_generator_tool_node

Init == InitPipeline

Spec == Init /\ [][Next]_vars

\* app.invoke runs the node the edges select until END is selected
SpecLive == Spec /\ WF_vars(Next)

\* ------------------------------------------------------------------------
\* Properties
\* ------------------------------------------------------------------------
InRan(n) == \E i \in 1..Len(ran) : ran[i] = n
TenKeywords == { INSERT, UPDATE, DELETE, DROP, CREATE, ALTER,
                 TRUNCATE, GRANT, REVOKE, EXECUTE }

\* C1: in agent-loop mode every SQL text a Tools turn has sent to the database
\* for an execute_sql_query call is one the Safety Validator accepts.
C1_ExecutedSqlWasValidated ==
    \A q \in Executed(db_log) : validate_select_query(q).is_valid

\* C2: in the linear pipeline Execution runs (or is about to run) exactly when
\* Query Synthesis ended with sql_valid == True; when Query Synthesis ended
\* otherwise the run is at END right after it, error is set, improved_prompt is
\* still what Prompt Refinement returned, and no later stage has run.
C2_ExecutionIffSqlValid ==
    /\ (InRan("query_runner") \/ node = "query_runner")
          <=> (InRan("query_generator") /\ state.sql_valid = "True")
    /\ (InRan("query_generator") /\ state.sql_valid # "True") =>
          /\ node = "END"
          /\ ran[Len(ran)] = "query_generator"
          /\ Truthy(state.error)
          /\ state.improved_prompt # Absent
          /\ state.improved_prompt = llm_calls[1].reply
          /\ ~InRan("user_output") /\ ~InRan("insights_generator")

C2_Witness ==
    /\ InRan("query_generator")
    /\ state.sql_valid = "False"
    /\ node = "END"
    /\ Truthy(state.improved_prompt)

\* C3: a candidate whose trimmed, upper-cased form does not start with SELECT
\* is rejected with a non-empty reason.
C3_NonSelectRejected ==
    (verdict.called /\ ~StartsWith(StrUpper(StrStrip(candidate)), SELECT)) =>
        /\ ~verdict.is_valid
        /\ Truthy(verdict.error_message)

C3_Witness ==
    /\ verdict.called
    /\ StartsWith(candidate, <<" ", "x">>)
    /\ ~verdict.is_valid

\* C4: a candidate that contains one of the ten deny-listed keywords anywhere,
\* in any letter case, also inside quotes or an identifier, is rejected.
C4_DenyListedRejected ==
    (verdict.called /\ \E k \in TenKeywords : StrContains(StrUpper(candidate), k)) =>
        ~verdict.is_valid

C4_Witness ==
    /\ verdict.called
    /\ candidate = SELECT \o <<"'">> \o <<"u","p","d","a","t","e","d">>
    /\ ~verdict.is_valid

\* C5 (as stated): "DELETE FROM projects" is rejected with a reason that names
\* the forbidden keyword DELETE.
C5_DeleteReasonNamesKeyword ==
    (verdict.called /\ candidate = DELETE_FROM_PROJECTS) =>
        /\ ~verdict.is_valid
        /\ StrContains(verdict.error_message, DELETE)

\* C5 (amended): "DELETE FROM projects" is rejected, and the reason is the
\* not-a-SELECT reason, which names no keyword.
C5_DeleteRejectedAsNonSelect ==
    (verdict.called /\ candidate = DELETE_FROM_PROJECTS) =>
        /\ ~verdict.is_valid
        /\ verdict.error_message = NOT_SELECT_MSG
        /\ ~StrContains(verdict.error_message, DELETE)

C5_Witness ==
    /\ verdict.called
    /\ candidate = DELETE_FROM_PROJECTS

\* C6: in the linear pipeline, once error is set no later step of the run
\* leaves it unset (None or empty).
C6_ErrorStaysSet ==
    [][Truthy(state.error) => Truthy(state'.error)]_vars

\* C7: when schema introspection has failed (Schema Retrieval ran and left
\* schema unset) error is set, and Prompt Refinement, Query Synthesis and
\* Execution do not run.
C7_SchemaFailureShortCircuits ==
    (InRan("schema_retrieval") /\ state.schema = NO_SCHEMA) =>
        /\ Truthy(state.error)
        /\ ~InRan("prompt_improver")
        /\ ~InRan("query_generator")
        /\ ~InRan("query_runner")

\* C8: when the Guarded Executor has failed, Result Shaping and Insight
\* Generation do not run: no metadata and no insights are produced.
C8_ExecutorFailureHalts ==
    (InRan("query_runner") /\ state.query_results.kind = "None") =>
        /\ ~InRan("user_output")
        /\ ~InRan("insights_generator")
        /\ state.metadata = EmptyMetadata
        /\ state.insights = Absent

\* C9: when the gateway's reply to Prompt Refinement starts with "ERROR:",
\* error is set and Query Synthesis is never called with that reply as its
\* instruction.
C9_RefinementErrorIsFatal ==
    \A i \in 1..Len(llm_calls) :
        (/\ llm_calls[i].caller = "PROMPT_IMPROVER_SYSTEM"
         /\ StartsWith(llm_calls[i].reply, ERROR_PREFIX)) =>
            /\ Truthy(state.error)
            /\ \A j \in 1..Len(llm_calls) :
                  llm_calls[j].caller = "QUERY_GENERATOR_SYSTEM" =>
                      llm_calls[j].about # llm_calls[i].reply

\* C10: in agent-loop mode iteration_count is the number of assistant turns the
\* gateway has produced (0 at the start, one more for each Agent turn that calls
\* the model) and is never above 5.
AssistantTurns(messages) ==
    Cardinality({ i \in 1..Len(messages) : messages[i].type = "ai" })

C10_IterationCountBounded ==
    /\ state.iteration_count = AssistantTurns(state.messages)
    /\ state.iteration_count \in 0..5

C10_Witness ==
    /\ state.iteration_count = 5
    /\ node = "end"
    /\ state.messages[Len(state.messages)].tool_calls # <<>>

\* C11: in agent-loop mode every run reaches the terminal state "end"; an Agent
\* turn whose reply requests no tool is the last step of the run, and no run
\* has more than 5 Agent turns.
AgentTurns == Cardinality({ i \in 1..Len(ran) : ran[i] = "agent" })

C11_LoopTerminates ==
    /\ <>(node = "end")
    /\ [](/\ AgentTurns <= 5
          /\ \A i \in 1..Len(state.messages) :
                (state.messages[i].type = "ai" /\ state.messages[i].tool_calls = <<>>) =>
                    (i = Len(state.messages) /\ node = "end")
          /\ node = "end" =>
                \/ state.messages[Len(state.messages)].tool_calls = <<>>
                \/ AgentTurns = 5)

C11_Witness ==
    /\ node = "end"
    /\ AgentTurns = 3
    /\ InRan("tools")
    /\ state.messages[Len(state.messages)].type = "ai"
    /\ state.messages[Len(state.messages)].tool_calls = <<>>

\* C12: in agent-loop mode, when the loop has ended after 5 Agent turns while
\* the latest assistant turn still requests tool calls, the message history
\* ends with the system notice "Maximum iterations reached. Ending task.".
LastAssistantTurn(messages) ==
    messages[CHOOSE i \in 1..Len(messages) :
                /\ messages[i].type = "ai"
                /\ \A j \in (i + 1)..Len(messages) : messages[j].type # "ai"]

C12_ForcedEndHasNotice ==
    (/\ node = "end"
     /\ state.iteration_count = 5
     /\ LastAssistantTurn(state.messages).tool_calls # <<>>) =>
        state.messages[Len(state.messages)] = SystemMessage(MAX_ITERATIONS_NOTICE)

\* C13: in the linear pipeline, when Result Shaping runs on a state whose
\* total_rows is above display_cap, then afterwards metadata.capped is true, the
\* rows kept are the first display_cap rows of the result set in their order,
\* metadata.displayed_rows is display_cap, and total_rows in the state and in
\* metadata is still the number of rows the query returned.
C13_CappedToFirstRows ==
    [][(node = "user_output" /\ GetInt(state.total_rows, 0) > state.display_cap) =>
          /\ state'.metadata.capped = TRUE
          /\ state'.query_results.rows =
                 SubSeq(state.query_results.rows, 1, state.display_cap)
          /\ state'.metadata.displayed_rows = state.display_cap
          /\ state'.total_rows = Len(state.query_results.rows)
          /\ state'.metadata.total_rows = Len(state.query_results.rows)]_vars

C13_Witness ==
    /\ InRan("user_output")
    /\ state.display_cap = MaxCap
    /\ state.total_rows = MaxCap + 1
    /\ state.metadata.capped = TRUE
    /\ state.query_results.rows = [i \in 1..MaxCap |-> i]

\* C14: in the linear pipeline, when Result Shaping runs on a state whose
\* total_rows is at most display_cap, the result set is left as it was (the same
\* rows in the same order), metadata.displayed_rows is total_rows and
\* metadata.capped is false.
C14_UncappedLeftAsIs ==
    [][(node = "user_output" /\ GetInt(state.total_rows, 0) <= state.display_cap) =>
          /\ state'.query_results = state.query_results
          /\ state'.metadata.displayed_rows = GetInt(state.total_rows, 0)
          /\ state'.metadata.displayed_rows = Len(state.query_results.rows)
          /\ state'.metadata.capped = FALSE]_vars

C14_Witness ==
    /\ InRan("user_output")
    /\ state.display_cap = MaxCap
    /\ state.total_rows = MaxCap
    /\ state.metadata.capped = FALSE
    /\ state.metadata.displayed_rows = MaxCap
    /\ state.query_results.rows = [i \in 1..MaxCap |-> i]

\* C15: in the linear pipeline, once the Insight stage has run on a state whose
\* total_rows is 0 (or unset, which the stage reads as 0), insights is a
\* non-empty text whatever the gateway replied (nothing, a short text, a long
\* text or an "ERROR:" text), and metadata.result_message is the zero-row
\* message.
C15_EmptyResultExplained ==
    (InRan("insights_generator") /\ GetInt(state.total_rows, 0) = 0) =>
        /\ state.insights \notin {None, Absent}
        /\ Len(state.insights) > 0
        /\ state.insights \in
              {INSIGHT_FALLBACK} \cup { r \in Replies : Len(r) > 10 }
        /\ state.metadata.result_message = EMPTY_RESULT_MSG

C15_Witness ==
    /\ InRan("insights_generator")
    /\ state.total_rows = 0
    /\ state.query_results.kind = "DataFrame"
    /\ llm_calls[Len(llm_calls)].caller = "INSIGHTS_GENERATOR_SYSTEM"
    /\ llm_calls[Len(llm_calls)].reply = <<>>
    /\ state.insights = INSIGHT_FALLBACK

\* C16: in the linear pipeline, after any failure of the Guarded Executor (a
\* driver error, an unexpected exception or a missing database connection)
\* error is set, query_results is None, and total_rows and execution_time are 0
\* in the state.
ExecutorFailed == InRan("query_runner") /\ state.query_results.kind = "None"

C16_FailureZeroesCounters ==
    ExecutorFailed =>
        /\ Truthy(state.error)
        /\ state.total_rows = 0
        /\ state.execution_time = 0

\* C17: after any failure of the Guarded Executor the error in the state is one
\* of a fixed set of sentences written for the user, and holds no text of the
\* driver's or library's exception.
ExecutorSentences ==
    { NO_CONNECTION_MSG,
      <<"Query execution failed: ">> \o TIMEOUT_MSG,
      <<"Query execution failed: ">> \o PERMISSION_MSG }

C17_NoRawDriverText ==
    ExecutorFailed =>
        /\ state.error \in ExecutorSentences
        /\ \A m \in DriverMessages \cup ExceptionMessages :
               ~StrContains(state.error, m)

\* C18: in the linear pipeline with no database connection configured, Schema
\* Retrieval sets schema to the fixed fallback schema (tables projects, clients
\* and orders) and sets no error, and the run goes on to Prompt Refinement and
\* then to Query Synthesis.
C18_FallbackSchemaWithoutConnection ==
    (~engine /\ InRan("schema_retrieval")) =>
        /\ state.schema = PLACEHOLDER_SCHEMA
        /\ state.schema.tables = {"projects", "clients", "orders"}
        /\ ~InRan("query_generator") => state.error = Absent
        /\ node = "prompt_improver" \/ InRan("prompt_improver")
        /\ InRan("prompt_improver") =>
              (node = "query_generator" \/ InRan("query_generator"))

C18_Witness ==
    /\ ~engine
    /\ state.schema.kind = "placeholder"
    /\ state.error = Absent
    /\ node = "query_generator"
    /\ ran = <<"user_input", "schema_retrieval", "prompt_improver">>

\* C19: in the confirmation-loop variant every rejection (confirmed = false at
\* the confirmation point) adds exactly 1 to edit_count; the rejection that
\* brings edit_count to 10 sets the error "Maximum edit attempts reached..." and
\* returns without running any stage or calling any service; a rejection that
\* leaves edit_count below 10 starts the graph again, and that run goes through
\* the entry and Schema Retrieval to Prompt Refinement and to no other stage.
C19_RejectionCountsEdits ==
    /\ [][(AtConfirmationPoint /\ state'.user_confirmed = "False") =>
            /\ state'.edit_count = state.edit_count + 1
            /\ state'.edit_count >= 10 =>
                  /\ state'.error = MAX_EDITS_MSG
                  /\ node' = "returned"
                  /\ ran' = ran /\ llm_calls' = llm_calls /\ db_log' = db_log
            /\ state'.edit_count < 10 =>
                  /\ node' = "user_input"
                  /\ state'.error = state.error]_vars
    /\ [](state.user_confirmed = "False" =>
            \/ node = "returned" /\ state.edit_count >= 10
            \/ /\ state.edit_count < 10
               /\ node \in {"user_input", "schema_retrieval", "prompt_improver"}
               /\ ~InRan("query_generator")
               /\ node = "prompt_improver" \/ ran[Len(ran)] # "prompt_improver")

C19_Witness ==
    /\ IsConfirmRun
    /\ node = "returned"
    /\ state.edit_count = 10
    /\ state.error = MAX_EDITS_MSG
    /\ ran = <<"user_input", "schema_retrieval", "prompt_improver">>

\* C20: in every state of a pipeline run, linear or with the confirmation loop,
\* user_input and display_cap are what the run was given at entry: no step
\* changes either field.
C20_InputsNeverChange ==
    [][/\ state'.user_input = state.user_input
       /\ state'.display_cap = state.display_cap]_vars

C20_Witness ==
    /\ IsConfirmRun
    /\ InRan("invoke")
    /\ InRan("insights_generator")
    /\ state.metadata.capped = TRUE
    /\ state.display_cap = MaxCap
    /\ state.user_input \in UserInputs

\* C21: when the gateway's reply to Insight Generation is an "ERROR:" text or
\* empty, the insights the stage leaves are absent (result with rows) or the
\* fixed fallback sentence (empty result), never the reply; the stage leaves
\* error, query_results and metadata as they were.
GatewayFailed(reply) == reply = <<>> \/ StartsWith(reply, ERROR_PREFIX)

C21_InsightFailureDegrades ==
    [][(/\ node = "insights_generator"
        /\ Len(llm_calls') > Len(llm_calls)
        /\ GatewayFailed(llm_calls'[Len(llm_calls')].reply)) =>
          /\ state'.insights =
                 IF GetInt(state.total_rows, 0) = 0 THEN INSIGHT_FALLBACK ELSE None
          /\ state'.error = state.error
          /\ state'.query_results = state.query_results
          /\ state'.metadata = state.metadata]_vars

\* C22: in agent-loop mode the node after an Agent turn is Tools exactly when
\* the latest assistant turn carries at least one tool call and iteration_count
\* is below 5, and is end otherwise; the node after a Tools turn is Agent.
C22_AgentLoopEdges ==
    [][/\ node = "agent" =>
            /\ node' \in {"tools", "end"}
            /\ node' = "tools" <=>
                  /\ LastAssistantTurn(state'.messages).tool_calls # <<>>
                  /\ state'.iteration_count < 5
       /\ node = "tools" => node' = "agent"]_vars

C22_Witness ==
    /\ node = "agent"
    /\ state.iteration_count = 4
    /\ ran = <<"agent", "tools", "agent", "tools", "agent", "tools", "agent", "tools">>
    /\ state.messages[Len(state.messages)].type = "tool"

\* C23: in every Tools turn, each tool call of the latest assistant turn,
\* whatever its tool name and outcome, gets exactly one tool result turn with
\* that call's id appended to messages, in call order.
C23_OneResultPerCall ==
    [][node = "tools" =>
          LET calls == state.messages[Len(state.messages)].tool_calls
              added == SubSeq(state'.messages, Len(state.messages) + 1,
                              Len(state'.messages))
          IN  /\ Len(added) = Len(calls)
              /\ \A i \in 1..Len(calls) :
                    /\ added[i].type = "tool"
                    /\ added[i].tool_call_id = calls[i].id]_vars

\* C24: within one Tools turn every tool handler reads the state as it was when
\* the turn began (the insight handler answers from the query_results of that
\* state even when an earlier call of the same turn has run a query), and the
\* fields written by the calls reach the state together with the result turns,
\* when the turn ends: a field changes only in a Tools turn holding a call that
\* writes it.
HasData(st) == st.query_results.kind = "DataFrame" /\ Len(st.query_results.rows) > 0
InsightCalls(log) ==
    Cardinality({ i \in 1..Len(log) : log[i].caller = "INSIGHTS_GENERATOR_SYSTEM" })
CallsNamed(calls, name) == { i \in 1..Len(calls) : calls[i].name = name }

C24_HandlersReadSnapshot ==
    [][/\ node = "tools" =>
            LET calls == state.messages[Len(state.messages)].tool_calls
                added == SubSeq(state'.messages, Len(state.messages) + 1,
                                Len(state'.messages))
                asked == CallsNamed(calls, "generate_insights_from_data")
            IN  /\ \A i \in asked : \A j \in 1..Len(added) :
                      added[j].tool_call_id = calls[i].id =>
                          (added[j].content = NO_DATA_MSG <=> ~HasData(state))
                /\ InsightCalls(llm_calls') - InsightCalls(llm_calls) =
                      IF HasData(state) THEN Cardinality(asked) ELSE 0
                /\ state'.insights # state.insights => HasData(state) /\ asked # {}
                /\ state'.query_results # state.query_results =>
                      CallsNamed(calls, "execute_sql_query") # {}
                /\ state'.schema # state.schema =>
                      CallsNamed(calls, "get_database_schema") # {}
                /\ state'.sql_query # state.sql_query =>
                      CallsNamed(calls, "generate_sql_query") # {}
       /\ node # "tools" =>
            /\ state'.insights = state.insights
            /\ state'.query_results = state.query_results
            /\ state'.schema = state.schema
            /\ state'.sql_query = state.sql_query]_vars

C24_Witness ==
    /\ ran = <<"agent", "tools">>
    /\ node = "agent"
    /\ HasData(state)
    /\ state.insights = Absent
    /\ state.messages[Len(state.messages)].content = NO_DATA_MSG
    /\ llm_calls = <<>>

\* C25: in agent-loop mode the schema cached in the state after a Tools turn is
\* a schema descriptor (tables with their columns and keys), the fixed fallback
\* schema when no database is reachable, and never an error object.
C25_AgentSchemaIsDescriptor ==
    state.schema # NO_SCHEMA =>
        /\ state.schema.kind \in {"inspected", "placeholder"}
        /\ ~engine => state.schema = PLACEHOLDER_SCHEMA

\* C26 (as stated): the Safety Validator accepts a text, with no reason, exactly
\* when its trimmed, upper-cased form starts with SELECT and contains none of
\* the ten keywords INSERT, UPDATE, DELETE, DROP, CREATE, ALTER, TRUNCATE,
\* GRANT, REVOKE, EXECUTE.
Accepted == verdict.is_valid /\ verdict.error_message = None
Normalised(text) == StrStrip(StrUpper(text))

C26_AcceptsIffNoneOfTen ==
    verdict.called =>
        (Accepted <=>
            /\ StartsWith(Normalised(candidate), SELECT)
            /\ \A k \in TenKeywords : ~StrContains(Normalised(candidate), k))

\* C26 (amended): the Safety Validator accepts a text, with no reason, exactly
\* when its trimmed, upper-cased form starts with SELECT and contains none of
\* the eleven keywords INSERT, UPDATE, DELETE, DROP, CREATE, ALTER, TRUNCATE,
\* GRANT, REVOKE, EXECUTE, EXEC; every other text is rejected with a reason.
C26_AcceptsIffNoneOfEleven ==
    verdict.called =>
        /\ Accepted <=>
              /\ StartsWith(Normalised(candidate), SELECT)
              /\ \A k \in TenKeywords \cup {EXEC} :
                    ~StrContains(Normalised(candidate), k)
        /\ ~Accepted => ~verdict.is_valid /\ Truthy(verdict.error_message)

C26_Witness ==
    /\ verdict.called
    /\ candidate = SELECT \o <<" ">> \o <<"e","x","e","c">>
    /\ ~verdict.is_valid
    /\ verdict.error_message = forbidden_keyword_msg(EXEC)

\* C27: for every total_rows and display_cap, Result Shaping sets
\* metadata.result_message to the empty-result notice when total_rows is 0, to
\* the truncation notice (with both numbers) when total_rows is not 0 and above
\* display_cap, and to no message otherwise; metadata.capped is
\* (total_rows > display_cap) whichever message is produced.
C27_OneOfThreeMessages ==
    [][node = "user_output" =>
          LET total_rows == GetInt(state.total_rows, 0)
              display_cap == state.display_cap
              message == state'.metadata.result_message
          IN  /\ total_rows = 0 => message = EMPTY_RESULT_MSG
              /\ (total_rows # 0 /\ total_rows > display_cap) =>
                    message = <<"Showing ", display_cap, " of ", total_rows,
                                " rows. Query returned more data than can be displayed.">>
              /\ (total_rows # 0 /\ total_rows <= display_cap) => message = None
              /\ state'.metadata.capped = (total_rows > display_cap)]_vars

C27_Witness ==
    /\ InRan("user_output")
    /\ state.total_rows = 0
    /\ state.display_cap = 0
    /\ state.query_results.kind = "DataFrame"
    /\ state.metadata.result_message = EMPTY_RESULT_MSG
    /\ state.metadata.capped = FALSE

\* C28 (as stated): when the Insight stage runs on an empty result
\* (total_rows 0), it puts the fixed fallback sentence in insights exactly when
\* the gateway's reply is absent or shorter than 10 characters; a reply of 10
\* or more characters becomes the insight unchanged.
C28_FallbackBelowTen ==
    [][(node = "insights_generator" /\ GetInt(state.total_rows, 0) = 0) =>
          LET reply == llm_calls'[Len(llm_calls')].reply
          IN  state'.insights =
                  IF reply = <<>> \/ Len(reply) < 10 THEN INSIGHT_FALLBACK ELSE reply]_vars

\* C28 (amended): when the Insight stage runs on an empty result, it puts the
\* fixed fallback sentence in insights exactly when the gateway's reply is
\* absent or has 10 characters or fewer; a reply of 11 or more characters
\* becomes the insight unchanged.
C28_FallbackUpToTen ==
    [][(node = "insights_generator" /\ GetInt(state.total_rows, 0) = 0) =>
          LET reply == llm_calls'[Len(llm_calls')].reply
          IN  /\ Len(llm_calls') = Len(llm_calls) + 1
              /\ state'.insights =
                    IF reply = <<>> \/ Len(reply) <= 10 THEN INSIGHT_FALLBACK ELSE reply
              /\ state'.insights = INSIGHT_FALLBACK <=> Len(reply) <= 10]_vars

C28_Witness ==
    /\ InRan("insights_generator")
    /\ state.total_rows = 0
    /\ llm_calls[Len(llm_calls)].caller = "INSIGHTS_GENERATOR_SYSTEM"
    /\ llm_calls[Len(llm_calls)].reply = TEN_CHARS
    /\ state.insights = INSIGHT_FALLBACK

\* C29 (as stated): when the Insight stage runs on a result with rows
\* (total_rows > 0), it calls the gateway exactly when the request text holds
\* one of the sixteen keywords trend, compare, analysis, summary, top,
\* breakdown, average, mean, median, percent, total, count, over, under,
\* exceed, below, or the result has a numeric column and at least 3 rows; when
\* it does not call, insights is None.
W_insight == <<"i","n","s","i","g","h","t">>
SixteenKeywords ==
    { <<"t","r","e","n","d">>, <<"c","o","m","p","a","r","e">>,
      <<"a","n","a","l","y","s","i","s">>, <<"s","u","m","m","a","r","y">>,
      <<"t","o","p">>, <<"b","r","e","a","k","d","o","w","n">>,
      <<"a","v","e","r","a","g","e">>, <<"m","e","a","n">>,
      <<"m","e","d","i","a","n">>, <<"p","e","r","c","e","n","t">>,
      <<"t","o","t","a","l">>, <<"c","o","u","n","t">>, <<"o","v","e","r">>,
      <<"u","n","d","e","r">>, <<"e","x","c","e","e","d">>, <<"b","e","l","o","w">> }
Mentions(text, keywords) == \E k \in keywords : StrContains(StrLower(text), k)
InsightCallMade == Len(llm_calls') = Len(llm_calls) + 1

C29_TriggerOfSixteen ==
    [][(node = "insights_generator" /\ GetInt(state.total_rows, 0) > 0) =>
          LET trigger == \/ Mentions(state.user_input, SixteenKeywords)
                         \/ /\ state.query_results.numeric
                            /\ Len(state.query_results.rows) >= 3
          IN  /\ InsightCallMade <=> trigger
              /\ ~trigger => llm_calls' = llm_calls /\ state'.insights = None]_vars

\* C29 (amended): when the Insight stage runs on a result with rows
\* (total_rows > 0), it calls the gateway exactly when at least one row is kept
\* for display and either the request text holds one of the seventeen keywords
\* (the sixteen above and insight) or the rows kept for display have a numeric
\* column and are at least 3; when it does not call, insights is None.
C29_TriggerOfSeventeen ==
    [][(node = "insights_generator" /\ GetInt(state.total_rows, 0) > 0) =>
          LET shown == Len(state.query_results.rows)
              trigger == /\ shown > 0
                         /\ \/ Mentions(state.user_input, SixteenKeywords \cup {W_insight})
                            \/ state.query_results.numeric /\ shown >= 3
          IN  /\ InsightCallMade <=> trigger
              /\ ~trigger => llm_calls' = llm_calls /\ state'.insights = None]_vars

C29_Witness ==
    /\ InRan("insights_generator")
    /\ state.user_input = <<"s","h","o","w"," ","a","l","l">>
    /\ state.total_rows = 3
    /\ Len(state.query_results.rows) = 3
    /\ state.query_results.numeric
    /\ llm_calls[Len(llm_calls)].caller = "INSIGHTS_GENERATOR_SYSTEM"
    /\ state.insights = SOME_INSIGHT

\* C30: every driver-level failure of the Guarded Executor comes to exactly one
\* of three outcomes: the timeout message when the failure's text mentions a
\* timeout (also when it mentions a permission denial as well), the
\* permission-denied message when it mentions a permission denial and no
\* timeout, and the generic outcome (the failure's own text) in every other case.
DriverFailures ==
    { db_log[i].msg : i \in { j \in 1..Len(db_log) : db_log[j].exc = "SQLAlchemyError" } }
SaysTimeout(text) == StrContains(StrLower(text), <<"t","i","m","e","o","u","t">>)
SaysDenied(text) ==
    StrContains(StrLower(text),
                <<"p","e","r","m","i","s","s","i","o","n"," ","d","e","n","i","e","d">>)
FailedWith(text) == <<"Query execution failed: ">> \o text

C30_FailureTaxonomy ==
    \A raised \in DriverFailures :
        /\ SaysTimeout(raised) => state.error = FailedWith(TIMEOUT_MSG)
        /\ (SaysDenied(raised) /\ ~SaysTimeout(raised)) =>
              state.error = FailedWith(PERMISSION_MSG)
        /\ (~SaysDenied(raised) /\ ~SaysTimeout(raised)) =>
              state.error = FailedWith(raised)
        /\ Cardinality({ state.error } \cap
               { FailedWith(TIMEOUT_MSG), FailedWith(PERMISSION_MSG),
                 FailedWith(raised) }) = 1

C30_Witness ==
    /\ InRan("query_runner")
    /\ \E raised \in DriverFailures : SaysTimeout(raised) /\ SaysDenied(raised)
    /\ state.error = FailedWith(TIMEOUT_MSG)

\* C31: each call of the Guarded Executor that goes to the database opens
\* exactly one connection, sets the statement timeout, then issues exactly one
\* user statement, the sql_query of the state; it never commits, it releases
\* the connection on every path on which it was opened, and the user statement
\* is never issued before the timeout has been set.
TraceOps(trace) == [i \in 1..Len(trace) |-> trace[i].op]
OpCount(trace, op) == Cardinality({ i \in 1..Len(trace) : trace[i].op = op })

C31_ExecutorProtocol ==
    [][(node = "query_runner" /\ engine) =>
          LET trace == SubSeq(db_log', Len(db_log) + 1, Len(db_log'))
              opened == trace[1].op = "connect" /\ trace[1].exc = "none"
          IN  /\ Len(trace) >= 1
              /\ OpCount(trace, "connect") = 1 /\ trace[1].op = "connect"
              /\ OpCount(trace, "set_timeout") <= 1
              /\ OpCount(trace, "execute") <= 1
              /\ OpCount(trace, "commit") = 0
              /\ \A i \in 1..Len(trace) :
                    /\ trace[i].op \in {"connect", "set_timeout", "execute", "close"}
                    /\ trace[i].op = "execute" =>
                          /\ trace[i].sql = state.sql_query
                          /\ \E j \in 1..(i - 1) :
                                trace[j].op = "set_timeout" /\ trace[j].exc = "none"
                    /\ trace[i].op # "execute" => trace[i].sql = <<>>
              /\ opened <=> OpCount(trace, "close") = 1
              /\ opened => trace[Len(trace)].op = "close"
              /\ state'.query_results.kind = "DataFrame" =>
                    TraceOps(trace) = <<"connect", "set_timeout", "execute", "close">>]_vars

C31_Witness ==
    /\ InRan("query_runner")
    /\ TraceOps(db_log) = <<"connect", "set_timeout", "execute", "close">>
    /\ db_log[3].exc = "SQLAlchemyError"
    /\ db_log[3].sql = state.sql_query
    /\ state.query_results.kind = "None"

\* C32: in the linear pipeline the stages run only in the order Schema
\* Retrieval, Prompt Refinement, Query Synthesis and then, when the SQL is
\* valid, Execution, Result Shaping, Insight Generation; each stage runs at most
\* once per request, and every request reaches END.
StageOrder ==
    << "user_input", "schema_retrieval", "prompt_improver", "query_generator",
       "query_runner", "user_output", "insights_generator" >>

C32_SinglePassInOrder ==
    /\ <>(node = "END")
    /\ [](/\ Len(ran) <= Len(StageOrder)
          /\ ran = SubSeq(StageOrder, 1, Len(ran))
          /\ \A stage \in {"schema_retrieval", "prompt_improver", "query_generator",
                           "query_runner", "user_output", "insights_generator"} :
                Cardinality({ i \in 1..Len(ran) : ran[i] = stage }) <= 1
          /\ InRan("query_runner") => state.sql_valid = "True"
          /\ node = "END" =>
                \/ Len(ran) = 4 /\ state.sql_valid # "True"
                \/ Len(ran) = 7 /\ state.sql_valid = "True")

C32_Witness ==
    /\ node = "END"
    /\ ran = StageOrder
    /\ state.sql_valid = "True"
    /\ state.metadata # EmptyMetadata
    /\ Len(llm_calls) = 3

\* C33: in the confirmation-loop variant a run started with user_confirmed
\* unset executes the entry, Schema Retrieval and Prompt Refinement once and
\* stops, with improved_prompt set and no sql_query, query_results or insights;
\* Query Synthesis and the later stages run only with user_confirmed true,
\* which such a run gets from a continuation with confirmed = true.
UntilConfirmation == <<"user_input", "schema_retrieval", "prompt_improver">>

C33_StopsForConfirmation ==
    /\ state.user_confirmed = "None" =>
          /\ Len(ran) <= 3
          /\ ran = SubSeq(UntilConfirmation, 1, Len(ran))
          /\ state.sql_query = Absent
          /\ state.sql_valid = "absent"
          /\ state.query_results = AbsentFrame
          /\ state.insights = Absent
          /\ Len(ran) = 3 =>
                /\ node = "END"
                /\ state.improved_prompt # Absent
                /\ state.improved_prompt = llm_calls[1].reply
    /\ \A stage \in {"query_generator", "query_runner", "user_output",
                     "insights_generator"} :
          InRan(stage) => state.user_confirmed = "True"
    /\ InRan("invoke") => SubSeq(ran, 1, 4) = UntilConfirmation \o <<"invoke">>

C33_Witness ==
    /\ InRan("invoke")
    /\ state.user_confirmed = "True"
    /\ state.edit_count = 0
    /\ InRan("query_generator")
    /\ state.sql_valid = "True"
    /\ node = "query_runner"

\* C34: in the confirmation-loop variant the graph run started by a rejection
\* that leaves edit_count below 10 executes Prompt Refinement a finite number
\* of times and then reaches a stopping point (END, where the caller is asked
\* again), rather than re-entering Prompt Refinement forever.
RejectedBelowLimit ==
    /\ state.user_confirmed = "False"
    /\ state.edit_count < MAX_EDITS

C34_RejectionRunStops == RejectedBelowLimit ~> (node = "END")

\* C35: in the confirmation-loop variant, when the user confirms, the
\* instruction passed to Query Synthesis is exactly the improved_prompt that
\* was returned at the confirmation point, and Prompt Refinement is not run
\* again between the confirmation and Query Synthesis.
InvokeAt == CHOOSE i \in 1..Len(ran) : ran[i] = "invoke"

\* the improved_prompt the caller was shown: the reply to the last Prompt
\* Refinement before the confirmation
ShownPrompt ==
    llm_calls[Cardinality({j \in 1..InvokeAt : ran[j] = "prompt_improver"})].reply

C35_ConfirmedPromptIsUsed ==
    (IsConfirmRun /\ InRan("invoke") /\ state.user_confirmed = "True") =>
        /\ \A j \in InvokeAt..Len(ran) : ran[j] # "prompt_improver"
        /\ \A i \in 1..Len(llm_calls) :
              llm_calls[i].caller = "QUERY_GENERATOR_SYSTEM" =>
                  llm_calls[i].about = ShownPrompt

\* C36: when the agent loop has reached 'end', every tool call requested by an
\* assistant turn in messages has a tool result turn with the same call id
\* later in messages.
Answered(messages, i, call) ==
    \E j \in (i + 1)..Len(messages) :
        /\ messages[j].type = "tool"
        /\ messages[j].tool_call_id = call.id

C36_NoUnansweredCallAtEnd ==
    node = "end" =>
        \A i \in 1..Len(state.messages) :
            state.messages[i].type = "ai" =>
                \A c \in 1..Len(state.messages[i].tool_calls) :
                    Answered(state.messages, i, state.messages[i].tool_calls[c])

\* C37: in agent-loop mode, in every state where both sql_query and
\* query_results are set, query_results is the result of executing exactly the
\* text held in sql_query: the statement that returned the rows is sql_query.
RanToEnd ==
    { i \in 1..Len(db_log) : db_log[i].op = "execute" /\ db_log[i].exc = "none" }

\* the text of the statement whose rows are in query_results: the last one
\* that ran without raising
ProducedBy == db_log[CHOOSE i \in RanToEnd : \A j \in RanToEnd : j <= i].sql

C37_RowsComeFromSqlQuery ==
    (state.sql_query # Absent /\ state.query_results.kind = "DataFrame") =>
        ProducedBy = state.sql_query

\* C38: for the same request, display_cap and service responses, the
\* confirmation-loop graph started by run_full_graph (user_confirmed True)
\* visits the same sequence of stages and leaves the same result fields as the
\* linear graph of run_graph: both graphs are wired over the same node
\* functions, so a run of the first is a run of the second when every node is
\* followed by the node the linear edges name, user_confirmed stays True, and
\* the stages run are the linear order up to the point the run has reached.
FullRun ==
    /\ IsConfirmRun
    /\ state.user_confirmed = "True"
    /\ ~InRan("invoke")

\* old_files/langgraph_graph.create_inventory_graph: the node after n
linear_edge(n, st) ==
    CASE n = "user_input" -> after_user_input
      [] n = "schema_retrieval" -> after_schema_retrieval(st)
      [] n = "prompt_improver" -> after_prompt_improver(st)
      [] n = "query_generator" -> after_query_generator(st)
      [] n = "query_runner" -> after_query_runner(st)
      [] n = "user_output" -> after_user_output
      [] n = "insights_generator" -> after_insights_generator

C39_InlineCheckAgrees ==
    verdict.called =>
        (inline_safety_check(candidate).is_valid <=> verdict.is_valid)

====
